---- MODULE Spec2Model ----
(***************************************************************************)
(* A model of kiss3d's batched point renderer                              *)
(* (src/renderer/point_renderer.rs).                                       *)
(*                                                                         *)
(* The renderer owns two growable channels, `points` (position and colour  *)
(* interleaved) and `sizes`, plus a default `point_size`.  Application     *)
(* code appends points with draw_point / draw_point_with_size; render      *)
(* submits the batch to the device in one draw call and clears it.         *)
(*                                                                         *)
(* Values: a Point3<f32> is modelled by an integer, an f32 size by an      *)
(* integer.  The k-th add call of a run passes the position k, so that the *)
(* vertices covered by a draw call can be traced back to the add calls     *)
(* that produced them; colours and sizes are drawn from small sets.        *)
(***************************************************************************)
EXTENDS Integers, Sequences, FiniteSets

VARIABLES
    program,     \* the attribute and uniform names the compiled shader program exposes
    points,      \* PointRenderer.points : GPUVec<Point3<f32>>
    sizes,       \* PointRenderer.sizes  : GPUVec<f32>
    point_size,  \* PointRenderer.point_size : f32
    enabled,     \* the shader attribute slots currently enabled
    panicked,    \* a verify! assertion failed: the call did not return
    device_error, \* the context call of the last public call that reported a device error
    op,          \* the last public call and its arguments
    ret,         \* what the last public call returned: << >> for (), <<b>> for a bool
    calls,       \* the collaborator calls made by the last public call
    nAdded,      \* history: number of add calls made so far
    frame,       \* history: the add calls made since the last render that returned
    lastSet,     \* history: argument of the last set_point_size call
    drawn,       \* history: per add call, how many draw calls covered it
    nDraws,      \* history: number of draw_arrays calls issued
    nRenders     \* history: number of render calls made on a non-empty batch

vars == <<program, points, sizes, point_size, enabled, panicked, device_error, op, ret, calls,
          nAdded, frame, lastSet, drawn, nDraws, nRenders>>

\* Bound: total number of add calls in a run.
MaxAdds == 3

\* Input domains.
Colors == {0, 1}
SizeArgs == {2, 5, 9}
Passes == {0, 1}
DeviceErrors == {"none", "point_size", "draw_arrays"}

\* point_size: 1.0 in PointRenderer::new.
DefaultPointSize == 1

(***************************************************************************)
(* GPUVec: the device-stageable growable buffer.  Its data is held in RAM  *)
(* (the renderer never unloads it), so data_mut() yields the vector.       *)
(***************************************************************************)
GPUVec_new == << >>

GPUVec_len(v) == Len(v)

GPUVec_push(v, x) == Append(v, x)

GPUVec_clear(v) == << >>

\* The renderer's fields as one value, the `self` of the methods below.
Self == [points |-> points, sizes |-> sizes, point_size |-> point_size]

\* One collaborator call.
Call(fn, obj, buf, x, y) == [fn |-> fn, obj |-> obj, buf |-> buf, x |-> x, y |-> y]

\* The record of a public call.
Op(name, pt, color, size, pass) ==
    [name |-> name, pt |-> pt, color |-> color, size |-> size, pass |-> pass]

(***************************************************************************)
(* The methods of PointRenderer.                                           *)
(***************************************************************************)
\* The names new looks up in the compiled program.
AttributeNames == {"position", "color", "size"}
UniformNames == {"proj", "view"}
HandleNames == AttributeNames \cup UniformNames

\* The programs the shader facility may hand back: each exposes some of the names.
Programs == SUBSET HandleNames

\* Effect::get_attrib / get_uniform: an Option, << >> for None.
get_attrib(prog, name) == IF name \in prog THEN << name >> ELSE << >>

get_uniform(prog, name) == IF name \in prog THEN << name >> ELSE << >>

\* What new does: ok is FALSE when an unwrap() panicked, and then no renderer exists.
NewResult(ok) ==
    [ok |-> ok, points |-> GPUVec_new, sizes |-> GPUVec_new,
     point_size |-> DefaultPointSize,
     calls |-> << Call("use_program", "shader", "", 0, 0) >>]

new_ignores_view(prog) ==
    NewResult(/\ \A n \in AttributeNames : get_attrib(prog, n) # << >>
              /\ get_uniform(prog, "proj") # << >>)

new(prog) ==
    NewResult(/\ \A n \in AttributeNames : get_attrib(prog, n) # << >>
              /\ \A n \in UniformNames : get_uniform(prog, n) # << >>)

needs_rendering_inverted(self) == GPUVec_len(self.points) = 0

needs_rendering(self) == GPUVec_len(self.points) # 0

set_point_size(self, pt_size) == [self EXCEPT !.point_size = pt_size]

draw_point_no_color(self, pt, color) ==
    [self EXCEPT !.points = GPUVec_push(self.points, pt),
                 !.sizes = GPUVec_push(self.sizes, self.point_size)]

draw_point_initial_size(self, pt, color) ==
    [self EXCEPT !.points = GPUVec_push(GPUVec_push(self.points, pt), color),
                 !.sizes = GPUVec_push(self.sizes, DefaultPointSize)]

draw_point(self, pt, color) ==
    [self EXCEPT !.points = GPUVec_push(GPUVec_push(self.points, pt), color),
                 !.sizes = GPUVec_push(self.sizes, self.point_size)]

draw_point_with_size_swapped(self, pt, color, size) ==
    [self EXCEPT !.points = GPUVec_push(GPUVec_push(self.points, color), pt),
                 !.sizes = GPUVec_push(self.sizes, size)]

draw_point_with_size_sets_default(self, pt, color, size) ==
    [self EXCEPT !.points = GPUVec_push(GPUVec_push(self.points, pt), color),
                 !.sizes = GPUVec_push(self.sizes, size),
                 !.point_size = size]

draw_point_with_size_no_size(self, pt, color, size) ==
    [self EXCEPT !.points = GPUVec_push(GPUVec_push(self.points, pt), color)]

draw_point_with_size(self, pt, color, size) ==
    [self EXCEPT !.points = GPUVec_push(GPUVec_push(self.points, pt), color),
                 !.sizes = GPUVec_push(self.sizes, size)]

RenderCalls_size_left_enabled(self, pass, count) ==
    << Call("use_program", "shader", "", 0, 0),
       Call("enable", "pos", "", 0, 0),
       Call("enable", "color", "", 0, 0),
       Call("enable", "size", "", 0, 0),
       Call("upload", "camera", "proj,view", pass, 0),
       Call("bind_sub_buffer", "color", "points", 1, 1),
       Call("bind_sub_buffer", "pos", "points", 1, 0),
       Call("bind_sub_buffer", "size", "sizes", 0, 0),
       Call("point_size", "ctxt", "", self.point_size, 0),
       Call("draw_arrays", "POINTS", "", 0, count),
       Call("disable", "pos", "", 0, 0),
       Call("disable", "color", "", 0, 0),
       Call("disable", "color", "", 0, 0) >>

RenderCalls_first_pass(self, pass, count) ==
    << Call("use_program", "shader", "", 0, 0),
       Call("enable", "pos", "", 0, 0),
       Call("enable", "color", "", 0, 0),
       Call("enable", "size", "", 0, 0),
       Call("upload", "camera", "proj,view", 0, 0),
       Call("bind_sub_buffer", "color", "points", 1, 1),
       Call("bind_sub_buffer", "pos", "points", 1, 0),
       Call("bind_sub_buffer", "size", "sizes", 0, 0),
       Call("point_size", "ctxt", "", self.point_size, 0),
       Call("draw_arrays", "POINTS", "", 0, count),
       Call("disable", "pos", "", 0, 0),
       Call("disable", "color", "", 0, 0),
       Call("disable", "size", "", 0, 0) >>

RenderCalls_draw_before_upload(self, pass, count) ==
    << Call("use_program", "shader", "", 0, 0),
       Call("enable", "pos", "", 0, 0),
       Call("enable", "color", "", 0, 0),
       Call("enable", "size", "", 0, 0),
       Call("bind_sub_buffer", "color", "points", 1, 1),
       Call("bind_sub_buffer", "pos", "points", 1, 0),
       Call("bind_sub_buffer", "size", "sizes", 0, 0),
       Call("point_size", "ctxt", "", self.point_size, 0),
       Call("draw_arrays", "POINTS", "", 0, count),
       Call("upload", "camera", "proj,view", pass, 0),
       Call("disable", "pos", "", 0, 0),
       Call("disable", "color", "", 0, 0),
       Call("disable", "size", "", 0, 0) >>

RenderCalls_last_size(self, pass, count) ==
    << Call("use_program", "shader", "", 0, 0),
       Call("enable", "pos", "", 0, 0),
       Call("enable", "color", "", 0, 0),
       Call("enable", "size", "", 0, 0),
       Call("upload", "camera", "proj,view", pass, 0),
       Call("bind_sub_buffer", "color", "points", 1, 1),
       Call("bind_sub_buffer", "pos", "points", 1, 0),
       Call("bind_sub_buffer", "size", "sizes", 0, 0),
       Call("point_size", "ctxt", "", self.sizes[Len(self.sizes)], 0),
       Call("draw_arrays", "POINTS", "", 0, count),
       Call("disable", "pos", "", 0, 0),
       Call("disable", "color", "", 0, 0),
       Call("disable", "size", "", 0, 0) >>

RenderCalls_offsets_swapped(self, pass, count) ==
    << Call("use_program", "shader", "", 0, 0),
       Call("enable", "pos", "", 0, 0),
       Call("enable", "color", "", 0, 0),
       Call("enable", "size", "", 0, 0),
       Call("upload", "camera", "proj,view", pass, 0),
       Call("bind_sub_buffer", "color", "points", 1, 0),
       Call("bind_sub_buffer", "pos", "points", 1, 1),
       Call("bind_sub_buffer", "size", "sizes", 0, 0),
       Call("point_size", "ctxt", "", self.point_size, 0),
       Call("draw_arrays", "POINTS", "", 0, count),
       Call("disable", "pos", "", 0, 0),
       Call("disable", "color", "", 0, 0),
       Call("disable", "size", "", 0, 0) >>

\* The collaborator calls of one render on a non-empty batch, in program order.
RenderCalls(self, pass, count) ==
    << Call("use_program", "shader", "", 0, 0),
       Call("enable", "pos", "", 0, 0),
       Call("enable", "color", "", 0, 0),
       Call("enable", "size", "", 0, 0),
       Call("upload", "camera", "proj,view", pass, 0),
       Call("bind_sub_buffer", "color", "points", 1, 1),
       Call("bind_sub_buffer", "pos", "points", 1, 0),
       Call("bind_sub_buffer", "size", "sizes", 0, 0),
       Call("point_size", "ctxt", "", self.point_size, 0),
       Call("draw_arrays", "POINTS", "", 0, count),
       Call("disable", "pos", "", 0, 0),
       Call("disable", "color", "", 0, 0),
       Call("disable", "size", "", 0, 0) >>

\* verify!: the assertion on the device's error flag after a context call.
\* The number of calls of RenderCalls made before the assertion fails.
verify(err) ==
    CASE err = "point_size" -> 9
      [] err = "draw_arrays" -> 10
      [] OTHER -> 13

\* The slots left enabled by a sequence of collaborator calls.
RECURSIVE EnabledAfter(_, _)
EnabledAfter(en, cs) ==
    IF cs = << >> THEN en
    ELSE LET c == Head(cs)
             e == CASE c.fn = "enable" -> en \cup {c.obj}
                    [] c.fn = "disable" -> en \ {c.obj}
                    [] OTHER -> en
         IN EnabledAfter(e, Tail(cs))

\* What one render call does: the fields and slots it leaves, the collaborator
\* calls it makes, and whether it panicked instead of returning.
RenderResult(self, en, cs, pan) ==
    [points |-> self.points, sizes |-> self.sizes, point_size |-> self.point_size,
     enabled |-> en, calls |-> cs, panicked |-> pan]

render_keeps_sizes(self, en, pass, err) ==
    IF GPUVec_len(self.points) = 0
    THEN RenderResult(self, en, << >>, FALSE)
    ELSE LET all == RenderCalls(self, pass, GPUVec_len(self.points) \div 2)
             made == SubSeq(all, 1, verify(err))
         IN IF Len(made) < Len(all)
            THEN RenderResult(self, EnabledAfter(en, made), made, TRUE)
            ELSE RenderResult([self EXCEPT !.points = GPUVec_clear(self.points)],
                              EnabledAfter(en, made), made, FALSE)

render_keeps_batch(self, en, pass, err) ==
    IF GPUVec_len(self.points) = 0
    THEN RenderResult(self, en, << >>, FALSE)
    ELSE LET all == RenderCalls(self, pass, GPUVec_len(self.points) \div 2)
             made == SubSeq(all, 1, verify(err))
         IN RenderResult(self, EnabledAfter(en, made), made, Len(made) < Len(all))

render_no_short_circuit(self, en, pass, err) ==
    LET all == RenderCalls(self, pass, GPUVec_len(self.points) \div 2)
        made == SubSeq(all, 1, verify(err))
    IN IF Len(made) < Len(all)
       THEN RenderResult(self, EnabledAfter(en, made), made, TRUE)
       ELSE RenderResult([self EXCEPT !.points = GPUVec_clear(self.points),
                                      !.sizes = GPUVec_clear(self.sizes)],
                         EnabledAfter(en, made), made, FALSE)

render_counts_entries(self, en, pass, err) ==
    IF GPUVec_len(self.points) = 0
    THEN RenderResult(self, en, << >>, FALSE)
    ELSE LET all == RenderCalls(self, pass, GPUVec_len(self.points))
             made == SubSeq(all, 1, verify(err))
         IN IF Len(made) < Len(all)
            THEN RenderResult(self, EnabledAfter(en, made), made, TRUE)
            ELSE RenderResult([self EXCEPT !.points = GPUVec_clear(self.points),
                                           !.sizes = GPUVec_clear(self.sizes)],
                              EnabledAfter(en, made), made, FALSE)

render_resets_default(self, en, pass, err) ==
    IF GPUVec_len(self.points) = 0
    THEN RenderResult(self, en, << >>, FALSE)
    ELSE LET all == RenderCalls(self, pass, GPUVec_len(self.points) \div 2)
             made == SubSeq(all, 1, verify(err))
         IN IF Len(made) < Len(all)
            THEN RenderResult(self, EnabledAfter(en, made), made, TRUE)
            ELSE RenderResult([self EXCEPT !.points = GPUVec_clear(self.points),
                                           !.sizes = GPUVec_clear(self.sizes),
                                           !.point_size = DefaultPointSize],
                              EnabledAfter(en, made), made, FALSE)

render_swallows_error(self, en, pass, err) ==
    IF GPUVec_len(self.points) = 0
    THEN RenderResult(self, en, << >>, FALSE)
    ELSE LET made == RenderCalls(self, pass, GPUVec_len(self.points) \div 2)
         IN RenderResult([self EXCEPT !.points = GPUVec_clear(self.points),
                                      !.sizes = GPUVec_clear(self.sizes)],
                         EnabledAfter(en, made), made, FALSE)

render(self, en, pass, err) ==
    IF GPUVec_len(self.points) = 0
    THEN RenderResult(self, en, << >>, FALSE)
    ELSE LET all == RenderCalls(self, pass, GPUVec_len(self.points) \div 2)
             made == SubSeq(all, 1, verify(err))
         IN IF Len(made) < Len(all)
            THEN RenderResult(self, EnabledAfter(en, made), made, TRUE)
            ELSE RenderResult([self EXCEPT !.points = GPUVec_clear(self.points),
                                           !.sizes = GPUVec_clear(self.sizes)],
                              EnabledAfter(en, made), made, FALSE)

(***************************************************************************)
(* The device: which entries of the bound buffers a draw call reads.       *)
(***************************************************************************)
\* The draw_arrays calls among cs.
DrawCalls(cs) == SelectSeq(cs, LAMBDA c : c.fn = "draw_arrays")

\* The bind_sub_buffer call of cs that binds `slot`.
Binding(cs, slot) ==
    CHOOSE c \in {cs[i] : i \in 1..Len(cs)} : c.fn = "bind_sub_buffer" /\ c.obj = slot

\* The entries of buffer v that vertices first..first+count-1 read through a
\* binding with `strides` elements skipped between two reads, starting at `start`.
Fetched(v, b, first, count) ==
    [k \in 1..count |->
        LET i == b.y + (first + k - 1) * (b.x + 1) + 1
        IN IF i \in 1..Len(v) THEN v[i] ELSE -1]

\* The positions submitted by the draw calls of cs, read from the channel as it
\* was at the time of the call.
RECURSIVE Submitted(_, _, _)
Submitted(v, cs, ds) ==
    IF ds = << >> THEN << >>
    ELSE Fetched(v, Binding(cs, "pos"), Head(ds).x, Head(ds).y)
         \o Submitted(v, cs, Tail(ds))

\* The device's error flag: the context call named err reports an error when it
\* is made; no other call does.
Reported(cs, err) ==
    IF \E i \in 1..Len(cs) : cs[i].fn = err THEN err ELSE "none"

\* How many entries of sequence s equal x.
Occurrences(s, x) == Cardinality({i \in 1..Len(s) : s[i] = x})

(***************************************************************************)
(* The state machine: one action per public call.                          *)
(***************************************************************************)
NoOp == Op("new", 0, 0, 0, 0)

Init ==
    /\ program \in Programs
    /\ LET n == new(program)
       IN /\ points = n.points
          /\ sizes = n.sizes
          /\ point_size = n.point_size
          /\ calls = n.calls
          /\ panicked = ~n.ok
    /\ enabled = {}
    /\ device_error = "none"
    /\ op = NoOp
    /\ ret = << >>
    /\ nAdded = 0
    /\ frame = << >>
    /\ lastSet = DefaultPointSize
    /\ drawn = [i \in {} |-> 0]
    /\ nDraws = 0
    /\ nRenders = 0

NeedsRendering ==
    /\ ~panicked
    /\ op' = Op("needs_rendering", 0, 0, 0, 0)
    /\ ret' = << needs_rendering(Self) >>
    /\ calls' = << >>
    /\ UNCHANGED <<program, points, sizes, point_size, enabled, panicked, device_error,
                   nAdded, frame, lastSet, drawn, nDraws, nRenders>>

SetPointSize_sets_device(pt_size) ==
    /\ ~panicked
    /\ LET s == set_point_size(Self, pt_size)
       IN /\ points' = s.points
          /\ sizes' = s.sizes
          /\ point_size' = s.point_size
    /\ op' = Op("set_point_size", 0, 0, pt_size, 0)
    /\ calls' = << Call("point_size", "ctxt", "", pt_size, 0) >>
    /\ lastSet' = pt_size
    /\ ret' = << >>
    /\ UNCHANGED <<program, enabled, panicked, device_error, nAdded, frame, drawn, nDraws, nRenders>>

SetPointSize(pt_size) ==
    /\ ~panicked
    /\ LET s == set_point_size(Self, pt_size)
       IN /\ points' = s.points
          /\ sizes' = s.sizes
          /\ point_size' = s.point_size
    /\ op' = Op("set_point_size", 0, 0, pt_size, 0)
    /\ calls' = << >>
    /\ lastSet' = pt_size
    /\ ret' = << >>
    /\ UNCHANGED <<program, enabled, panicked, device_error, nAdded, frame, drawn, nDraws, nRenders>>

DrawPoint(color) ==
    /\ ~panicked
    /\ nAdded < MaxAdds
    /\ LET pt == nAdded + 1
           s == draw_point(Self, pt, color)
       IN /\ points' = s.points
          /\ sizes' = s.sizes
          /\ point_size' = s.point_size
          /\ op' = Op("draw_point", pt, color, 0, 0)
          /\ frame' = Append(frame, [pt |-> pt, color |-> color, size |-> lastSet])
          /\ drawn' = [i \in 1..pt |-> IF i = pt THEN 0 ELSE drawn[i]]
          /\ nAdded' = pt
    /\ calls' = << >>
    /\ ret' = << >>
    /\ UNCHANGED <<program, enabled, panicked, device_error, lastSet, nDraws, nRenders>>

DrawPointWithSize(color, size) ==
    /\ ~panicked
    /\ nAdded < MaxAdds
    /\ LET pt == nAdded + 1
           s == draw_point_with_size(Self, pt, color, size)
       IN /\ points' = s.points
          /\ sizes' = s.sizes
          /\ point_size' = s.point_size
          /\ op' = Op("draw_point_with_size", pt, color, size, 0)
          /\ frame' = Append(frame, [pt |-> pt, color |-> color, size |-> size])
          /\ drawn' = [i \in 1..pt |-> IF i = pt THEN 0 ELSE drawn[i]]
          /\ nAdded' = pt
    /\ calls' = << >>
    /\ ret' = << >>
    /\ UNCHANGED <<program, enabled, panicked, device_error, lastSet, nDraws, nRenders>>

Render(pass, err) ==
    /\ ~panicked
    /\ LET r == render(Self, enabled, pass, err)
           ds == DrawCalls(r.calls)
           sub == Submitted(points, r.calls, ds)
       IN /\ points' = r.points
          /\ sizes' = r.sizes
          /\ point_size' = r.point_size
          /\ enabled' = r.enabled
          /\ calls' = r.calls
          /\ panicked' = r.panicked
          /\ device_error' = Reported(r.calls, err)
          /\ nDraws' = nDraws + Len(ds)
          /\ drawn' = [i \in DOMAIN drawn |-> drawn[i] + Occurrences(sub, i)]
          /\ frame' = IF r.panicked THEN frame ELSE << >>
          /\ nRenders' = IF GPUVec_len(points) # 0
                         THEN nRenders + 1 ELSE nRenders
    /\ op' = Op("render", 0, 0, 0, pass)
    /\ ret' = << >>
    /\ UNCHANGED <<program, nAdded, lastSet>>

Next ==
    \/ NeedsRendering
    \/ \E pt_size \in SizeArgs : SetPointSize(pt_size)
    \/ \E color \in Colors : DrawPoint(color)
    \/ \E color \in Colors, size \in SizeArgs : DrawPointWithSize(color, size)
    \/ \E pass \in Passes, err \in DeviceErrors : Render(pass, err)

Spec == Init /\ [][Next]_vars

(***************************************************************************)
(* Properties.                                                             *)
(***************************************************************************)

\* C1: after n add calls (draw_point and draw_point_with_size in any mix, with
\* set_point_size and needs_rendering interleaved) since construction or since
\* the last render that drew, the position/colour channel has length 2*n and
\* the size channel has length n.
C1_ChannelLengths ==
    /\ GPUVec_len(points) = 2 * Len(frame)
    /\ GPUVec_len(sizes) = Len(frame)

\* Two points of different sizes added after a render that drew, then a
\* needs_rendering call.
C1_Witness ==
    /\ nRenders = 1
    /\ Len(frame) = 2
    /\ frame[1].size # frame[2].size
    /\ op.name = "needs_rendering"

\* C2: needs_rendering() is false exactly when no point has been added since
\* construction or since the last render that returned, and a call of it
\* returns that value.
C2_NeedsRenderingIff ==
    /\ needs_rendering(Self) <=> (frame # << >>)
    /\ op.name = "needs_rendering" => ret = << frame # << >> >>

\* needs_rendering() answers false after a render that drew.
C2_Witness ==
    /\ op.name = "needs_rendering"
    /\ ret = << FALSE >>
    /\ nRenders >= 1

\* C3: after a render call that returns (no device error), both channels are
\* empty, however many points were batched.
C3_RenderLeavesEmpty ==
    (op.name = "render" /\ ~panicked) =>
        (GPUVec_len(points) = 0 /\ GPUVec_len(sizes) = 0)

\* A render that drew several points has returned.
C3_Witness ==
    /\ op.name = "render"
    /\ ~panicked
    /\ DrawCalls(calls) # << >>
    /\ DrawCalls(calls)[1].y >= 2

\* C4: a render call on an empty batch makes no collaborator call and leaves the
\* channels, the default size and the slots as they were; so a render made
\* directly after a render makes no collaborator call.
C4_EmptyRenderStep ==
    /\ (op'.name = "render" /\ GPUVec_len(points) = 0) =>
          /\ calls' = << >>
          /\ ~panicked'
          /\ UNCHANGED <<points, sizes, point_size, enabled>>
    /\ (op.name = "render" /\ op'.name = "render") => calls' = << >>

C4_EmptyRenderIsSilent == [][C4_EmptyRenderStep]_vars

\* A render on an empty batch that follows a render that drew.
C4_Witness ==
    /\ op.name = "render"
    /\ ~panicked
    /\ calls = << >>
    /\ nDraws >= 1

\* C5: entry 2k of the position/colour channel (counting from 0) is the position
\* of the k-th add call since the last clear and entry 2k+1 its colour; later
\* calls leave the entries already there in place.
C5_Interleaving ==
    /\ GPUVec_len(points) = 2 * Len(frame)
    /\ \A k \in 1..Len(frame) :
          /\ points[2 * k - 1] = frame[k].pt
          /\ points[2 * k] = frame[k].color

\* Three points with differing colours, followed by a set_point_size.
C5_Witness ==
    /\ Len(frame) = 3
    /\ frame[1].color # frame[2].color
    /\ op.name = "set_point_size"

\* C6: draw_point appends to the size channel the default in force when it is
\* called (the argument of the last set_point_size, or the default of new),
\* after the sizes already there; set_point_size changes neither channel.
C6_DefaultSizeStep ==
    /\ op'.name = "draw_point" =>
          /\ sizes' = Append(sizes, lastSet)
          /\ point_size' = lastSet
    /\ op'.name = "set_point_size" =>
          /\ UNCHANGED <<points, sizes>>
          /\ point_size' = op'.size

C6_DefaultSizeApplied == [][C6_DefaultSizeStep]_vars

\* Sizes 5, 5 batched, then set 9 and draw_point: the sizes are 5, 5, 9.
C6_Witness ==
    /\ op.name = "draw_point"
    /\ sizes = <<5, 5, 9>>
    /\ point_size = 9

\* C7: draw_point_with_size appends its size argument to the size channel and
\* leaves the default as it was, so a draw_point that follows appends the
\* default in force before it.
C7_ExplicitSizeStep ==
    /\ op'.name = "draw_point_with_size" =>
          /\ sizes' = Append(sizes, op'.size)
          /\ point_size' = point_size
    /\ (op.name = "draw_point_with_size" /\ op'.name = "draw_point") =>
          sizes' = Append(sizes, lastSet)

C7_ExplicitSizeKeepsDefault == [][C7_ExplicitSizeStep]_vars

\* set 5, add, add with size 2: the sizes are 5, 2 and the default is still 5.
C7_Witness ==
    /\ op.name = "draw_point_with_size"
    /\ op.size = 2
    /\ sizes = <<5, 2>>
    /\ point_size = 5
    /\ lastSet = 5

\* Add call i is among the points awaiting a render that returns.
Pending(i) == \E k \in 1..Len(frame) : frame[k].pt = i

\* A render call was made after add call i: one that returned, or the one
\* that panicked and ended the run.
RenderFollowed(i) == ~Pending(i) \/ (panicked /\ op.name = "render")

\* C8 as stated: every point added is submitted by the first render call that
\* follows its addition and by no other, so a point is covered by exactly one
\* draw call once a render call has followed it and by none before.
C8_SubmittedByNextRender ==
    \A i \in 1..nAdded :
        drawn[i] = IF RenderFollowed(i) THEN 1 ELSE 0

\* C8 as amended: up to the first render that panics, every point added is
\* submitted by the first render call that follows its addition, except that
\* a render call in which point_size reports a device error panics before the
\* draw call and submits nothing; no point is covered by two draw calls, and a
\* point is covered by none before a render call follows its addition.
C8_NotPersistent ==
    \A i \in 1..nAdded :
        drawn[i] = IF RenderFollowed(i) /\ ~(Pending(i) /\ device_error = "point_size")
                   THEN 1 ELSE 0

\* Two renders have drawn, each its own points.
C8_Witness ==
    /\ nDraws = 2
    /\ nAdded = 3
    /\ \A i \in 1..nAdded : drawn[i] = 1

\* The draw call of a render on the batch held in points.
TheDraw == Call("draw_arrays", "POINTS", "", 0, GPUVec_len(points) \div 2)

\* C9 as stated: every render call on a non-empty batch issues exactly one draw
\* call, of kind POINTS, from vertex 0, over (channel length / 2) vertices, which
\* is the number of points added since the last clear and the length of the size
\* channel; the draw calls of a run are as many as its render calls on a
\* non-empty batch.
C9_EveryRenderStep ==
    (op'.name = "render" /\ GPUVec_len(points) # 0) =>
        /\ DrawCalls(calls') = << TheDraw >>
        /\ GPUVec_len(points) \div 2 = Len(frame)
        /\ GPUVec_len(sizes) = Len(frame)

C9_EveryRenderDraws ==
    /\ [](nDraws = nRenders)
    /\ [][C9_EveryRenderStep]_vars

\* C9 as amended: a render call on a non-empty batch issues exactly one draw
\* call, of kind POINTS, from vertex 0, over (channel length / 2) vertices, which
\* is the number of points added since the last clear and the length of the size
\* channel, unless point_size reports a device error in it, and then it panics
\* and issues none; the draw calls of a run are as many as its render calls on
\* a non-empty batch in which point_size reported no error.
C9_DrawStep ==
    (op'.name = "render" /\ GPUVec_len(points) # 0) =>
        /\ DrawCalls(calls') =
              IF device_error' = "point_size" THEN << >> ELSE << TheDraw >>
        /\ GPUVec_len(points) \div 2 = Len(frame)
        /\ GPUVec_len(sizes) = Len(frame)

C9_OneDrawPerRender ==
    /\ [](nDraws = nRenders - IF device_error = "point_size" THEN 1 ELSE 0)
    /\ [][C9_DrawStep]_vars

\* The second drawing render of a run has drawn two points.
C9_Witness ==
    /\ op.name = "render"
    /\ ~panicked
    /\ nDraws = 2
    /\ DrawCalls(calls) # << >>
    /\ DrawCalls(calls)[1].y = 2

\* C10: in every reachable state the position/colour channel has even length
\* and the size channel has half that length.
C10_RatioInvariant ==
    /\ GPUVec_len(points) % 2 = 0
    /\ GPUVec_len(sizes) = GPUVec_len(points) \div 2

\* A second frame being filled, after a first one was drawn.
C10_Witness ==
    /\ nRenders = 1
    /\ GPUVec_len(points) = 4
    /\ GPUVec_len(sizes) = 2

\* The function names of a sequence of collaborator calls.
Fns(cs) == [i \in 1..Len(cs) |-> cs[i].fn]

\* C11: when point_size or draw_arrays reports a device error during render,
\* the render call does not return (it panics), the failing call is the last
\* collaborator call made, it was made once, and no later step of the protocol
\* (draw, disabling of the slots, clearing of the batch) is executed.
C11_ErrorStep ==
    (op'.name = "render" /\ device_error' # "none") =>
        /\ panicked'
        /\ calls' # << >>
        /\ calls'[Len(calls')].fn = device_error'
        /\ Occurrences(Fns(calls'), device_error') = 1
        /\ Occurrences(Fns(calls'), "disable") = 0
        /\ device_error' = "point_size" => DrawCalls(calls') = << >>
        /\ UNCHANGED <<points, sizes, point_size>>

C11_DeviceErrorIsFatal == [][C11_ErrorStep]_vars

\* point_size reported an error on a batch of two points: render panicked.
C11_Witness ==
    /\ op.name = "render"
    /\ device_error = "point_size"
    /\ panicked
    /\ Len(frame) = 2

\* C12: a renderer exists (construction returned, or any call was made on it)
\* only when the compiled program exposes all five names position, color, size,
\* proj and view; when one is absent new panics and no call is ever made.
C12_ConstructionNeedsHandles ==
    /\ (~panicked \/ op.name # "new") => HandleNames \subseteq program
    /\ ~(HandleNames \subseteq program) =>
          /\ panicked
          /\ op.name = "new"
          /\ nAdded = 0
          /\ nDraws = 0

\* The program lacks the view uniform only: construction panicked.
C12_Witness ==
    /\ program = HandleNames \ {"view"}
    /\ panicked
    /\ op.name = "new"

\* The stride of a binding, in entries of the buffer: the distance between the
\* entries two consecutive vertices read, written 0 when the entries read are
\* densely packed.  bind_sub_buffer is given the number of entries to skip.
Stride(b) == IF b.x = 0 THEN 0 ELSE b.x + 1

\* The offset of a binding: the entry the first vertex reads.
Offset(b) == b.y

\* C13: a render on a non-empty batch binds the interleaved channel to the
\* position slot with stride 2 and offset 0, the same channel to the colour slot
\* with stride 2 and offset 1, and the size channel to the size slot with stride
\* 0 (densely packed) and offset 0: vertex k reads the position, the colour and
\* the size of the k-th point of the batch.
C13_BindingStep ==
    (op'.name = "render" /\ GPUVec_len(points) # 0) =>
        LET pos == Binding(calls', "pos")
            color == Binding(calls', "color")
            size == Binding(calls', "size")
            n == Len(frame)
        IN /\ << pos.buf, Stride(pos), Offset(pos) >> = << "points", 2, 0 >>
           /\ << color.buf, Stride(color), Offset(color) >> = << "points", 2, 1 >>
           /\ << size.buf, Stride(size), Offset(size) >> = << "sizes", 0, 0 >>
           /\ Fetched(points, pos, 0, n) = [k \in 1..n |-> frame[k].pt]
           /\ Fetched(points, color, 0, n) = [k \in 1..n |-> frame[k].color]
           /\ Fetched(sizes, size, 0, n) = [k \in 1..n |-> frame[k].size]

C13_Bindings == [][C13_BindingStep]_vars

\* A render has bound and drawn a batch of three points.
C13_Witness ==
    /\ op.name = "render"
    /\ ~panicked
    /\ DrawCalls(calls) # << >>
    /\ DrawCalls(calls)[1].y = 3

\* The calls of cs to the collaborator function fn.
CallsTo(cs, fn) == SelectSeq(cs, LAMBDA c : c.fn = fn)

\* C14 as stated: the value a render on a non-empty batch passes to the
\* context's point_size call is the size of the last point appended to the batch.
C14_LastSizeStep ==
    (op'.name = "render" /\ GPUVec_len(points) # 0) =>
        /\ Len(CallsTo(calls', "point_size")) = 1
        /\ GPUVec_len(sizes) # 0
        /\ CallsTo(calls', "point_size")[1].x = sizes[Len(sizes)]

C14_PointSizeIsLastSize == [][C14_LastSizeStep]_vars

\* C14 as amended: the value a render on a non-empty batch passes to the
\* context's point_size call is the default point size in force at that render
\* (the argument of the last set_point_size, or the default of new), whatever
\* the sizes of the points in the batch.
C14_PointSizeIsDefault ==
    (op.name = "render" /\ calls # << >>) =>
        /\ Len(CallsTo(calls, "point_size")) = 1
        /\ CallsTo(calls, "point_size")[1].x = lastSet

\* The default is 5, the last point of the batch has size 2, and render passed
\* 5 to point_size (the batch is still visible because draw_arrays then failed).
C14_Witness ==
    /\ op.name = "render"
    /\ device_error = "draw_arrays"
    /\ lastSet = 5
    /\ sizes # << >>
    /\ sizes[Len(sizes)] = 2
    /\ CallsTo(calls, "point_size")[1].x = 5

\* The order of the protocol: the collaborator functions of a render, in order.
ProtocolOrder ==
    << "use_program", "enable", "enable", "enable", "upload",
       "bind_sub_buffer", "bind_sub_buffer", "bind_sub_buffer",
       "point_size", "draw_arrays", "disable", "disable", "disable" >>

\* The slots named by the calls i..j of cs.
SlotsOf(cs, i, j) == {cs[k].obj : k \in i..j}

\* C15: a render on a non-empty batch activates the shader, enables the three
\* slots, uploads the camera matrices, binds the three buffers, sets the point
\* size, draws, disables the three slots and then clears the batch, in that
\* order.  A render cut short by a device error made a prefix of these calls and
\* did not clear the batch; the batch is cleared only once the draw call and the
\* disabling are done.
C15_ProtocolStep ==
    (op'.name = "render" /\ GPUVec_len(points) # 0) =>
        /\ calls' # << >>
        /\ Len(calls') <= Len(ProtocolOrder)
        /\ Fns(calls') = SubSeq(ProtocolOrder, 1, Len(calls'))
        /\ SlotsOf(calls', 2, 4) = {"pos", "color", "size"}
        /\ SlotsOf(calls', 6, 8) = {"pos", "color", "size"}
        /\ Len(calls') = Len(ProtocolOrder) =>
              SlotsOf(calls', 11, 13) = {"pos", "color", "size"}
        /\ (points' # points \/ sizes' # sizes) =>
              /\ Len(calls') = Len(ProtocolOrder)
              /\ points' = << >>
              /\ sizes' = << >>
        /\ ~panicked' => (Len(calls') = Len(ProtocolOrder) /\ points' = << >>)

C15_ProtocolOrder == [][C15_ProtocolStep]_vars

\* A render ran the whole protocol on a batch of one point.
C15_Witness ==
    /\ op.name = "render"
    /\ ~panicked
    /\ Fns(calls) = ProtocolOrder
    /\ DrawCalls(calls)[1].y = 1
    /\ points = << >>

\* The positions in cs of the calls to fn.
IndicesOf(cs, fn) == {i \in 1..Len(cs) : cs[i].fn = fn}

\* C16: a render on a non-empty batch calls camera.upload exactly once, with the
\* pass index it was given and the proj and view uniform slots, before the draw
\* call; no other call, and no render on an empty batch, calls the camera.
C16_UploadStep ==
    IF op'.name = "render" /\ GPUVec_len(points) # 0
    THEN /\ CallsTo(calls', "upload") =
               << Call("upload", "camera", "proj,view", op'.pass, 0) >>
         /\ \A i \in IndicesOf(calls', "upload"), j \in IndicesOf(calls', "draw_arrays") :
               i < j
    ELSE CallsTo(calls', "upload") = << >>

C16_UploadOncePerRender ==
    /\ CallsTo(calls, "upload") = << >>
    /\ [][C16_UploadStep]_vars

\* A render drew in pass 1 and uploaded the matrices for pass 1.
C16_Witness ==
    /\ op.name = "render"
    /\ op.pass = 1
    /\ ~panicked
    /\ DrawCalls(calls) # << >>
    /\ CallsTo(calls, "upload")[1].x = 1

\* C17: render, drawing or not, leaves the default point size as it was; only
\* set_point_size changes it, so a draw_point made right after a render appends
\* the default that was in force before that render.
C17_DefaultStep ==
    /\ op'.name = "render" => point_size' = point_size
    /\ op'.name # "set_point_size" => point_size' = point_size
    /\ (op.name = "render" /\ op'.name = "draw_point") =>
          sizes' = Append(sizes, lastSet)

C17_RenderKeepsDefault ==
    /\ [](point_size = lastSet)
    /\ [][C17_DefaultStep]_vars

\* A render drew with the default 9, passed it to the device, and the default
\* is still 9 afterwards.
C17_Witness ==
    /\ op.name = "render"
    /\ ~panicked
    /\ calls # << >>
    /\ CallsTo(calls, "point_size")[1].x = 9
    /\ point_size = 9

\* The attribute slots of the renderer.
Slots == {"pos", "color", "size"}

\* The positions in cs of the calls fn(slot).
SlotCalls(cs, fn, slot) == {i \in 1..Len(cs) : cs[i].fn = fn /\ cs[i].obj = slot}

\* C18: as long as no device error occurred, none of the three slots is enabled
\* between public calls; a render on a non-empty batch that returns enables each
\* slot once, before the draw call, and disables each once, after it.
C18_BalancedStep ==
    (op'.name = "render" /\ GPUVec_len(points) # 0 /\ ~panicked') =>
        \A slot \in Slots :
            /\ Cardinality(SlotCalls(calls', "enable", slot)) = 1
            /\ Cardinality(SlotCalls(calls', "disable", slot)) = 1
            /\ \A d \in IndicesOf(calls', "draw_arrays") :
                  /\ \A e \in SlotCalls(calls', "enable", slot) : e < d
                  /\ \A x \in SlotCalls(calls', "disable", slot) : d < x

C18_SlotsBalanced ==
    /\ [](~panicked => enabled = {})
    /\ [][C18_BalancedStep]_vars

\* The second drawing render of a run returned with every slot disabled again.
C18_Witness ==
    /\ op.name = "render"
    /\ ~panicked
    /\ nRenders = 2
    /\ Len(CallsTo(calls, "disable")) = 3
    /\ enabled = {}

\* C19: needs_rendering, set_point_size, draw_point and draw_point_with_size
\* make no collaborator call and touch no slot; after construction a collaborator
\* call is made, or a slot changed, only by a render on a non-empty batch.
C19_DeviceStep ==
    /\ (calls' # << >> \/ enabled' # enabled) =>
          (op'.name = "render" /\ GPUVec_len(points) # 0)
    /\ op'.name \in {"needs_rendering", "set_point_size",
                     "draw_point", "draw_point_with_size"} =>
          /\ calls' = << >>
          /\ device_error' = "none"
          /\ UNCHANGED <<enabled, nDraws>>

C19_OnlyRenderTouchesDevice == [][C19_DeviceStep]_vars

\* After a render that drew, a point was added and the default size set, and
\* the last of these calls made no collaborator call.
C19_Witness ==
    /\ op.name = "set_point_size"
    /\ nDraws = 1
    /\ Len(frame) = 1
    /\ calls = << >>
    /\ enabled = {}

====
